---- MODULE Spec2Model ----
(***************************************************************************)
(* Model of SSASC/energies.ipynb: the eta/psi estimators (compute_eta,     *)
(* compute_psi), the Ogata-Tanemura path integrator (ot_estimator), the    *)
(* closed-form energy calculators and the get_energies wrapper.            *)
(*                                                                         *)
(* Floating-point numbers are modelled as exact rationals <<"q", n, d>>.   *)
(* numpy.exp and numpy.log are uninterpreted: applying them, or doing      *)
(* arithmetic on one of their results, builds a term <<"sym", f, args>>.   *)
(* Arrays are sequences (rows) of sequences (columns) of such numbers.     *)
(* Python indices are 0-based in the code and are kept 0-based in every    *)
(* index the model stores; rows are read as a[i + 1].                      *)
(***************************************************************************)
EXTENDS Integers, Sequences, FiniteSets, TLC

VARIABLES
    inp,        \* the top-level call: function name and the argument values
    heap,       \* array objects by reference: reference -> array contents
    stack,      \* active functions, outermost first
    ge,         \* locals of get_energies
    ce,         \* locals of compute_eta
    cp,         \* locals of compute_psi
    ot,         \* locals of ot_estimator
    dk,         \* locals of compute_dkl
    emd,        \* the container's output attributes
    emdWrites,  \* attribute names in the order get_energies assigned them
    calls,      \* calls made to mean_field, synthesis and transforms
    mfRange,    \* the eta rows the mean-field solvers return in this run
    ret,        \* the value last returned by a function
    outcome     \* "running", "returned" or "raised" (with the exception)

vars == <<inp, heap, stack, ge, ce, cp, ot, dk, emd, emdWrites, calls,
          mfRange, ret, outcome>>

(***************************************************************************)
(* Bounds of the model and constants of the program.                       *)
(***************************************************************************)
MaxT == 2            \* most time bins in a theta array
MaxK == 3            \* most integration points in a direct ot_estimator call
ExactMaxN == 15      \* "if N > 15": largest network solved exactly
DefaultR == 1000     \* compute_eta(theta, N, O, R=1000)
SampleSteps == 100   \* sample_steps=100

(***************************************************************************)
(* Numbers.                                                                *)
(***************************************************************************)
Abs(x) == IF x < 0 THEN -x ELSE x

RECURSIVE GCD(_, _)
GCD(a, b) == IF b = 0 THEN a ELSE GCD(b, a % b)

Q(n, d) ==
    LET s == IF d < 0 THEN -1 ELSE 1
        g == GCD(Abs(n), Abs(d))
    IN  <<"q", (s * n) \div g, (s * d) \div g>>

Num(n) == <<"q", n, 1>>
Zero == Num(0)
One == Num(1)
IsQ(x) == x[1] = "q"
Sym(f, args) == <<"sym", f, args>>

Add(a, b) == IF IsQ(a) /\ IsQ(b) THEN Q(a[2] * b[3] + b[2] * a[3], a[3] * b[3])
             ELSE Sym("add", <<a, b>>)
Sub(a, b) == IF IsQ(a) /\ IsQ(b) THEN Q(a[2] * b[3] - b[2] * a[3], a[3] * b[3])
             ELSE Sym("sub", <<a, b>>)
Mul(a, b) == IF IsQ(a) /\ IsQ(b) THEN Q(a[2] * b[2], a[3] * b[3])
             ELSE Sym("mul", <<a, b>>)
\* numpy division: x/0 is inf or nan (a warning, no exception)
Div(a, b) == IF IsQ(a) /\ IsQ(b) /\ b[2] # 0 THEN Q(a[2] * b[3], a[3] * b[2])
             ELSE Sym("div", <<a, b>>)
Neg(a) == IF IsQ(a) THEN Q(-a[2], a[3]) ELSE Sym("neg", <<a>>)
Exp(a) == Sym("exp", <<a>>)
Log(a) == Sym("log", <<a>>)

(***************************************************************************)
(* numpy on vectors (one row) and on 2-d arrays.                           *)
(***************************************************************************)
\* the sum of s[lo..hi], by halves
RECURSIVE SumRange(_, _, _)
SumRange(s, lo, hi) ==
    IF lo = hi THEN s[lo]
    ELSE LET mid == (lo + hi) \div 2
         IN  Add(SumRange(s, lo, mid), SumRange(s, mid + 1, hi))
\* numpy.sum of a vector (a sum with an uninterpreted term stays one flat term)
numpy_sum(s) == IF Len(s) = 0 THEN Zero
                ELSE IF \A k \in 1..Len(s) : IsQ(s[k]) THEN SumRange(s, 1, Len(s))
                ELSE Sym("sum", s)

VecSub(a, b) == [d \in 1..Len(a) |-> Sub(a[d], b[d])]
VecAdd(a, b) == [d \in 1..Len(a) |-> Add(a[d], b[d])]
VecMul(a, b) == [d \in 1..Len(a) |-> Mul(a[d], b[d])]
VecScale(c, a) == [d \in 1..Len(a) |-> Mul(c, a[d])]
\* numpy.dot of two vectors
numpy_dot(a, b) == numpy_sum(VecMul(a, b))
\* numpy.mean of a 0-d value is the value
numpy_mean(x) == x
\* numpy.ones(K)
numpy_ones(K) == [k \in 1..K |-> One]
\* numpy.linspace(0, 1, K): K points, both endpoints included for K >= 2
numpy_linspace(K) == [k \in 1..K |-> IF K = 1 THEN Zero ELSE Q(k - 1, K - 1)]
\* a[:, :N]
ColsTo(a, N) == [t \in 1..Len(a) |-> SubSeq(a[t], 1, N)]
\* a filled (T, D) array
Filled(T, D, v) == [t \in 1..T |-> [d \in 1..D |-> v]]
\* sum(a, axis=1)
SumAxis1(a) == [t \in 1..Len(a) |-> numpy_sum(a[t])]
\* a - b and a*b on 2-d arrays of one shape
ArrSub(a, b) == [t \in 1..Len(a) |-> VecSub(a[t], b[t])]
ArrMul(a, b) == [t \in 1..Len(a) |-> VecMul(a[t], b[t])]

(***************************************************************************)
(* The closed-form functions of the notebook.                              *)
(***************************************************************************)
Sigmoid(x) == Div(One, Add(One, Exp(Neg(x))))
compute_ind_eta(theta) ==
    [t \in 1..Len(theta) |-> [d \in 1..Len(theta[t]) |-> Sigmoid(theta[t][d])]]

Logit(e) == Log(Div(e, Sub(One, e)))
compute_ind_theta(eta) ==
    [t \in 1..Len(eta) |-> [d \in 1..Len(eta[t]) |-> Logit(eta[t][d])]]

Softplus(x) == Log(Add(One, Exp(x)))
compute_ind_psi(theta) ==
    SumAxis1([t \in 1..Len(theta) |-> [d \in 1..Len(theta[t]) |-> Softplus(theta[t][d])]])

compute_internal_energy(theta, eta) ==
    [t \in 1..Len(theta) |-> Neg(numpy_sum(VecMul(theta[t], eta[t])))]

BinaryEntropyTerm(e) == Add(Mul(e, Log(e)), Mul(Sub(One, e), Log(Sub(One, e))))
compute_entropy(theta, eta, psi, O) ==
    IF O = 1
    THEN [t \in 1..Len(eta) |-> Neg(numpy_sum([d \in 1..Len(eta[t]) |->
                                               BinaryEntropyTerm(eta[t][d])]))]
    ELSE LET U == compute_internal_energy(theta, eta)
             F == [t \in 1..Len(psi) |-> Neg(psi[t])]
         IN  VecSub(U, F)

compute_likelihood(y, theta, psi, R) ==
    [t \in 1..Len(theta) |->
        Mul(Num(R), Sub(numpy_sum(VecMul(y[t], theta[t])), psi[t]))]

(***************************************************************************)
(* Python values, frames and exceptions.                                   *)
(***************************************************************************)
Idle == [pc |-> "idle"]
PyNone == [type |-> "None"]
PyFloat(x) == [type |-> "float", v |-> x]
PyTuple(items) == [type |-> "tuple", items |-> items]
PyArray(a) == [type |-> "ndarray", v |-> a]
Running == [kind |-> "running", exc |-> ""]
Returned == [kind |-> "returned", exc |-> ""]
Raised(e) == [kind |-> "raised", exc |-> e]
NoHeap == [r \in {} |-> <<>>]
Top == stack[Len(stack)]
Pop == SubSeq(stack, 1, Len(stack) - 1)

\* an exception nobody catches: every frame is unwound and the objects that
\* only the frames referenced are freed
Restrict(h, refs) == [r \in (DOMAIN h) \cap refs |-> h[r]]
CallerRefs == {"theta", "y"}
Unwind(e) ==
    /\ outcome' = Raised(e)
    /\ stack' = <<>>
    /\ ge' = Idle /\ ce' = Idle /\ cp' = Idle /\ ot' = Idle /\ dk' = Idle
    /\ heap' = Restrict(heap, CallerRefs)
    /\ ret' = PyNone
    /\ UNCHANGED <<inp, emd, emdWrites, mfRange>>

\* what numpy.empty leaves in a new array is whatever the memory held
Garbage == {Num(0), Num(7)}
\* an eta row of width D: the first N columns and the remaining ones
EtaRow(D, N, f) == [d \in 1..D |-> IF d <= N THEN f[1] ELSE f[2]]
EtaFills == {<<Q(1, 2), Q(1, 4)>>, <<Q(1, 4), Q(1, 2)>>}
Call(fn, args, ok, res) == [fn |-> fn, args |-> args, ok |-> ok, res |-> res]

(***************************************************************************)
(* ot_estimator(th0, psi0, th1, N, O, K)                                   *)
(***************************************************************************)
\* the difference forgotten: dth = th1
DthNoSubtract(th1, th0) == th1
\* dth = th1 - th0
Dth(th1, th0) == VecSub(th1, th0)
\* th_tmp = th0 + int_point*dth
PathPoint(th0, int_point, dth) == VecAdd(th0, VecScale(int_point, dth))
\* the standard trapezoidal rule: endpoints halved instead of divided by K
TrapezoidWeights(K) ==
    [k \in 1..K |-> IF k = 1 \/ k = K THEN Div(One, Num(2 * K)) ELSE Div(One, Num(K))]
\* w = numpy.ones(K)/K; w[0] /= K; w[-1] /= K
Weights(K) ==
    LET w0 == [k \in 1..K |-> Div(numpy_ones(K)[k], Num(K))]
        w1 == [w0 EXCEPT ![1] = Div(@, Num(K))]
    IN  [w1 EXCEPT ![K] = Div(@, Num(K))]
\* return psi0 + numpy.dot(w, avg_dUs)
OtResult(psi0, w, avg_dUs) == Add(psi0, numpy_dot(w, avg_dUs))

OtFrame(th0, psi0, th1, N, O, K) ==
    [pc |-> "L208", th0 |-> th0, psi0 |-> psi0, th1 |-> th1, N |-> N, O |-> O,
     K |-> K, dth |-> <<>>, int_points |-> <<>>, avg_dUs |-> <<>>,
     points_to_sample |-> <<>>, i |-> 0]

\* lines 208-215
OT_enter ==
    /\ ot.pc = "L208"
    /\ \E g \in Garbage :
         ot' = [ot EXCEPT !.pc = "L216",
                          !.dth = Dth(ot.th1, ot.th0),
                          !.int_points = numpy_linspace(ot.K),
                          !.avg_dUs = [k \in 1..ot.K |-> g],
                          !.points_to_sample = <<>>,
                          !.i = 0]
    /\ UNCHANGED <<inp, heap, stack, ge, ce, cp, dk, emd, emdWrites, calls,
                   mfRange, ret, outcome>>

\* lines 216-224, the solver returns
OT_point ==
    /\ ot.pc = "L216"
    /\ ot.i < ot.K
    /\ LET th_tmp == PathPoint(ot.th0, ot.int_points[ot.i + 1], ot.dth)
       IN  \E f \in mfRange :
             LET eta == EtaRow(Len(th_tmp), ot.N, f)
                 dU == numpy_dot(ot.dth, eta)
             IN  /\ calls' = Append(calls, Call("mean_field.forward_problem_hessian",
                                                <<th_tmp, ot.N>>, TRUE, eta))
                 /\ ot' = [ot EXCEPT !.avg_dUs[ot.i + 1] = numpy_mean(dU),
                                     !.i = ot.i + 1]
    /\ UNCHANGED <<inp, heap, stack, ge, ce, cp, dk, emd, emdWrites,
                   mfRange, ret, outcome>>

\* line 220, the solver raises: nothing in ot_estimator or its callers catches it
OT_point_raise ==
    /\ ot.pc = "L216"
    /\ ot.i < ot.K
    /\ LET th_tmp == PathPoint(ot.th0, ot.int_points[ot.i + 1], ot.dth)
       IN  calls' = Append(calls, Call("mean_field.forward_problem_hessian",
                                       <<th_tmp, ot.N>>, FALSE, <<>>))
    /\ Unwind("SolverError")

\* lines 227-231
OT_return ==
    /\ ot.pc = "L216"
    /\ ot.i = ot.K
    /\ ret' = PyFloat(OtResult(ot.psi0, Weights(ot.K), ot.avg_dUs))
    /\ ot' = Idle
    /\ stack' = Pop
    /\ outcome' = IF Len(stack) = 1 THEN Returned ELSE outcome
    /\ UNCHANGED <<inp, heap, ge, ce, cp, dk, emd, emdWrites, calls, mfRange>>

(***************************************************************************)
(* The integrator alone, under a solver that may return any row at any     *)
(* point of the path.                                                      *)
(***************************************************************************)
OtComps == {-1, 0, 2}
OtVecs == {<<Num(a), Num(b)>> : a \in OtComps, b \in OtComps}
OtPsi0s == {Num(0), Q(3, 2)}

InitOT ==
    /\ \E th0 \in OtVecs, th1 \in OtVecs, psi0 \in OtPsi0s, K \in 1..MaxK :
         /\ inp = [fn |-> "ot_estimator", th0 |-> th0, psi0 |-> psi0,
                   th1 |-> th1, N |-> 1, O |-> 2, K |-> K]
         /\ ot = OtFrame(th0, psi0, th1, 1, 2, K)
    /\ heap = NoHeap
    /\ stack = <<"ot_estimator">>
    /\ ge = Idle /\ ce = Idle /\ cp = Idle /\ dk = Idle
    /\ emd = NoHeap
    /\ emdWrites = <<>>
    /\ calls = <<>>
    /\ mfRange = EtaFills
    /\ ret = PyNone
    /\ outcome = Running

NextOT == OT_enter \/ OT_point \/ OT_point_raise \/ OT_return

SpecOT == InitOT /\ [][NextOT]_vars

(***************************************************************************)
(* Heap objects and helpers of the estimators.                             *)
(***************************************************************************)
\* a.shape of a 2-d array (the width of an array without rows is the input's)
Shape(a) == <<Len(a), IF Len(a) = 0 THEN inp.D ELSE Len(a[1])>>
\* no copy taken: the name is bound to the caller's array
numpy_alias(src, fresh) == src
\* numpy.copy(a): a new object holding a's contents; the reference returned
numpy_copy(src, fresh) == fresh
\* a[:, N:] = 0
ZeroColsFrom(a, N) ==
    [t \in 1..Len(a) |-> [d \in 1..Len(a[t]) |-> IF d > N THEN Zero ELSE a[t][d]]]
\* a[:, :N] = b
SetColsTo(a, N, b) ==
    [t \in 1..Len(a) |-> [d \in 1..Len(a[t]) |-> IF d <= N THEN b[t][d] ELSE a[t][d]]]
\* the boundary off by one: "if N >= 15"
ApproximateFrom15(N) == N >= ExactMaxN
\* "if N > 15"
Approximate(N) == N > ExactMaxN
\* bins_to_sample.insert(0, i)
RememberBinFirst(bins, i) == <<i>> \o bins
\* bins_to_sample.append(i)
RememberBin(bins, i) == Append(bins, i)
\* for idx, bin2sampl in enumerate(bins_to_sample): theta_to_sample[idx] = theta[bin2sampl]
ThetaToSample(theta, bins) == [idx \in 1..Len(bins) |-> theta[bins[idx] + 1]]
\* the estimate written at its position in the list: eta[idx] = eta_from_sample[idx]
SubstituteAtIdx(eta, bins, eta_from_sample) ==
    [t \in 1..Len(eta) |-> IF t <= Len(bins) THEN eta_from_sample[t] ELSE eta[t]]
\* for idx, bin2sampl in enumerate(bins_to_sample): eta[bin2sampl] = eta_from_sample[idx]
Substitute(eta, bins, eta_from_sample) ==
    [t \in 1..Len(eta) |->
        IF \E idx \in 1..Len(bins) : bins[idx] = t - 1
        THEN eta_from_sample[CHOOSE idx \in 1..Len(bins) :
                               /\ bins[idx] = t - 1
                               /\ \A j \in (idx + 1)..Len(bins) : bins[j] # t - 1]
        ELSE eta[t]]
\* the position after one pass of "for i in range(T)"
LoopPc(i, T, body, exit) == IF i < T THEN body ELSE exit
\* setattr on the container, in order
RECURSIVE SetAttrs(_, _)
SetAttrs(e, kvs) ==
    IF kvs = <<>> THEN e
    ELSE SetAttrs((kvs[1][1] :> kvs[1][2]) @@ e, Tail(kvs))
AttrNames(kvs) == [k \in 1..Len(kvs) |-> kvs[k][1]]
\* a function returns to its caller, or to the top level
ReturnTo(v) ==
    /\ ret' = v
    /\ stack' = Pop
    /\ outcome' = IF Len(stack) = 1 THEN Returned ELSE outcome

PsiVals == {Q(3, 2), Num(2)}

(***************************************************************************)
(* compute_eta(theta, N, O, R=1000)                                        *)
(***************************************************************************)
CeFrame(theta, N, O, R) ==
    [pc |-> "L114", theta |-> theta, N |-> N, O |-> O, R |-> R, T |-> 0, D |-> 0,
     eta |-> "", bins_to_sample |-> <<>>, i |-> 0]

\* lines 114-121
CE_enter ==
    /\ ce.pc = "L114"
    /\ Top = "compute_eta"
    /\ LET sh == Shape(heap[ce.theta])
       IN  /\ \E g \in Garbage :
                heap' = ("ce.eta" :> Filled(sh[1], sh[2], g)) @@ heap
           /\ ce' = [ce EXCEPT !.T = sh[1], !.D = sh[2], !.eta = "ce.eta",
                               !.bins_to_sample = <<>>, !.i = 0,
                               !.pc = IF ce.O = 1 THEN "L118"
                                      ELSE IF ce.O = 2
                                      THEN IF Approximate(ce.N)
                                           THEN LoopPc(0, sh[1], "L125", "L129")
                                           ELSE "L140"
                                      ELSE "L145"]
    /\ UNCHANGED <<inp, stack, ge, cp, ot, dk, emd, emdWrites, calls, mfRange,
                   ret, outcome>>

\* line 118
CE_order1 ==
    /\ ce.pc = "L118"
    /\ heap' = [heap EXCEPT ![ce.eta] = compute_ind_eta(ColsTo(heap[ce.theta], ce.N))]
    /\ ce' = [ce EXCEPT !.pc = "L145"]
    /\ UNCHANGED <<inp, stack, ge, cp, ot, dk, emd, emdWrites, calls, mfRange,
                   ret, outcome>>

\* lines 122-125, the forward problem is solved
CE_solve ==
    /\ ce.pc = "L125"
    /\ \E f \in mfRange :
         LET row == EtaRow(ce.D, ce.N, f)
         IN  /\ calls' = Append(calls, Call("mean_field.forward_problem",
                                            <<heap[ce.theta][ce.i + 1], ce.N, "TAP">>,
                                            TRUE, row))
             /\ heap' = [heap EXCEPT ![ce.eta][ce.i + 1] = row]
    /\ ce' = [ce EXCEPT !.i = ce.i + 1,
                        !.pc = LoopPc(ce.i + 1, ce.T, "L125", "L129")]
    /\ UNCHANGED <<inp, stack, ge, cp, ot, dk, emd, emdWrites, mfRange, ret, outcome>>

\* lines 122-128, the forward problem raises
CE_solve_fails ==
    /\ ce.pc = "L125"
    /\ calls' = Append(calls, Call("mean_field.forward_problem",
                                   <<heap[ce.theta][ce.i + 1], ce.N, "TAP">>,
                                   FALSE, <<>>))
    /\ ce' = [ce EXCEPT !.bins_to_sample = RememberBin(ce.bins_to_sample, ce.i),
                        !.i = ce.i + 1,
                        !.pc = LoopPc(ce.i + 1, ce.T, "L125", "L129")]
    /\ UNCHANGED <<inp, heap, stack, ge, cp, ot, dk, emd, emdWrites, mfRange,
                   ret, outcome>>

\* line 129, no bin failed
CE_nothing_to_sample ==
    /\ ce.pc = "L129"
    /\ Len(ce.bins_to_sample) = 0
    /\ ce' = [ce EXCEPT !.pc = "L145"]
    /\ UNCHANGED <<inp, heap, stack, ge, cp, ot, dk, emd, emdWrites, calls, mfRange,
                   ret, outcome>>

\* lines 129-136
CE_sample ==
    /\ ce.pc = "L129"
    /\ Len(ce.bins_to_sample) # 0
    /\ LET theta_to_sample == ThetaToSample(heap[ce.theta], ce.bins_to_sample)
       IN  \E fs \in [1..Len(ce.bins_to_sample) -> EtaFills] :
             LET eta_from_sample ==
                     [idx \in 1..Len(ce.bins_to_sample) |-> EtaRow(ce.D, ce.N, fs[idx])]
             IN  /\ calls' = calls \o
                       << Call("synthesis.generate_spikes_gibbs_parallel",
                               <<theta_to_sample, ce.N, ce.O, ce.R, SampleSteps>>,
                               TRUE, <<>>),
                          Call("transforms.compute_y", <<ce.O, 1>>, TRUE,
                               eta_from_sample) >>
                 /\ heap' = [heap EXCEPT ![ce.eta] =
                                Substitute(@, ce.bins_to_sample, eta_from_sample)]
    /\ ce' = [ce EXCEPT !.pc = "L145"]
    /\ UNCHANGED <<inp, stack, ge, cp, ot, dk, emd, emdWrites, mfRange, ret, outcome>>

\* line 140
CE_exact_init ==
    /\ ce.pc = "L140"
    /\ calls' = Append(calls, Call("transforms.initialise", <<ce.N, ce.O>>, TRUE, <<>>))
    /\ ce' = [ce EXCEPT !.i = 0, !.pc = LoopPc(0, ce.T, "L142", "L145")]
    /\ UNCHANGED <<inp, heap, stack, ge, cp, ot, dk, emd, emdWrites, mfRange,
                   ret, outcome>>

\* lines 141-143
CE_exact_bin ==
    /\ ce.pc = "L142"
    /\ \E f \in EtaFills :
         LET row == EtaRow(ce.D, ce.N, f)
         IN  /\ calls' = calls \o
                   << Call("transforms.compute_p", <<heap[ce.theta][ce.i + 1]>>,
                           TRUE, <<>>),
                      Call("transforms.compute_eta", <<>>, TRUE, row) >>
             /\ heap' = [heap EXCEPT ![ce.eta][ce.i + 1] = row]
    /\ ce' = [ce EXCEPT !.i = ce.i + 1,
                        !.pc = LoopPc(ce.i + 1, ce.T, "L142", "L145")]
    /\ UNCHANGED <<inp, stack, ge, cp, ot, dk, emd, emdWrites, mfRange, ret, outcome>>

\* line 145
CE_return ==
    /\ ce.pc = "L145"
    /\ ReturnTo(PyTuple(<<ce.eta, ce.bins_to_sample>>))
    /\ ce' = Idle
    /\ UNCHANGED <<inp, heap, ge, cp, ot, dk, emd, emdWrites, calls, mfRange>>

(***************************************************************************)
(* compute_psi(theta, N, O, R=1000)                                        *)
(***************************************************************************)
CpFrame(theta, N, O, R) ==
    [pc |-> "L163", theta |-> theta, N |-> N, O |-> O, R |-> R, T |-> 0,
     psi |-> "", bins_sampled |-> <<>>, theta0 |-> "", psi0 |-> <<>>, i |-> 0]

\* "if O == 2:" and "if N > 15:" (lines 169-171, 181)
CpBranch(O, N) ==
    IF O = 2 THEN IF Approximate(N) THEN "L172" ELSE "L182" ELSE "L185"

\* lines 163-167
CP_enter ==
    /\ cp.pc = "L163"
    /\ Top = "compute_psi"
    /\ LET T == Shape(heap[cp.theta])[1]
       IN  /\ \E g \in Garbage :
                heap' = ("cp.psi" :> [t \in 1..T |-> g]) @@ heap
           /\ cp' = [cp EXCEPT !.T = T, !.bins_sampled = <<>>, !.psi = "cp.psi",
                               !.pc = IF cp.O = 1 THEN "L168" ELSE CpBranch(cp.O, cp.N)]
    /\ UNCHANGED <<inp, stack, ge, ce, ot, dk, emd, emdWrites, calls, mfRange,
                   ret, outcome>>

\* line 168
CP_order1 ==
    /\ cp.pc = "L168"
    /\ heap' = [heap EXCEPT ![cp.psi] = compute_ind_psi(ColsTo(heap[cp.theta], cp.N))]
    /\ cp' = [cp EXCEPT !.pc = CpBranch(cp.O, cp.N)]
    /\ UNCHANGED <<inp, stack, ge, ce, ot, dk, emd, emdWrites, calls, mfRange,
                   ret, outcome>>

\* lines 172-174
CP_reference ==
    /\ cp.pc = "L172"
    /\ LET theta0 == numpy_copy(cp.theta, "cp.theta0")
           copied == (theta0 :> heap[cp.theta]) @@ heap
           zeroed == [copied EXCEPT ![theta0] = ZeroColsFrom(@, cp.N)]
       IN  /\ heap' = zeroed
           /\ cp' = [cp EXCEPT !.theta0 = theta0,
                               !.psi0 = compute_ind_psi(ColsTo(zeroed[theta0], cp.N)),
                               !.i = 0,
                               !.pc = LoopPc(0, cp.T, "L176", "L185")]
    /\ UNCHANGED <<inp, stack, ge, ce, ot, dk, emd, emdWrites, calls, mfRange,
                   ret, outcome>>

\* line 176, the call: ot_estimator(theta0[i], psi0[i], theta[i], N, O, N)
CP_call_ot ==
    /\ cp.pc = "L176"
    /\ Top = "compute_psi"
    /\ ot' = OtFrame(heap[cp.theta0][cp.i + 1], cp.psi0[cp.i + 1],
                     heap[cp.theta][cp.i + 1], cp.N, cp.O, cp.N)
    /\ stack' = Append(stack, "ot_estimator")
    /\ cp' = [cp EXCEPT !.pc = "L176r"]
    /\ UNCHANGED <<inp, heap, ge, ce, dk, emd, emdWrites, calls, mfRange, ret, outcome>>

\* lines 176-179: "psi[i], sampled = <returned value>" unpacks a pair; anything
\* that is not iterable is a TypeError
CP_unpack ==
    /\ cp.pc = "L176r"
    /\ Top = "compute_psi"
    /\ IF ret.type = "tuple" /\ Len(ret.items) = 2
       THEN /\ heap' = [heap EXCEPT ![cp.psi][cp.i + 1] = ret.items[1]]
            /\ cp' = [cp EXCEPT !.bins_sampled = IF ret.items[2]
                                                 THEN Append(@, cp.i) ELSE @,
                                !.i = cp.i + 1,
                                !.pc = LoopPc(cp.i + 1, cp.T, "L176", "L185")]
            /\ UNCHANGED <<inp, stack, ge, ce, ot, dk, emd, emdWrites, mfRange,
                           ret, outcome>>
       ELSE Unwind("TypeError")
    /\ UNCHANGED calls

\* line 182
CP_exact_init ==
    /\ cp.pc = "L182"
    /\ calls' = Append(calls, Call("transforms.initialise", <<cp.N, 2>>, TRUE, <<>>))
    /\ cp' = [cp EXCEPT !.i = 0, !.pc = LoopPc(0, cp.T, "L184", "L185")]
    /\ UNCHANGED <<inp, heap, stack, ge, ce, ot, dk, emd, emdWrites, mfRange,
                   ret, outcome>>

\* lines 183-184
CP_exact_bin ==
    /\ cp.pc = "L184"
    /\ \E v \in PsiVals :
         /\ calls' = Append(calls, Call("transforms.compute_psi",
                                        <<heap[cp.theta][cp.i + 1]>>, TRUE, v))
         /\ heap' = [heap EXCEPT ![cp.psi][cp.i + 1] = v]
    /\ cp' = [cp EXCEPT !.i = cp.i + 1,
                        !.pc = LoopPc(cp.i + 1, cp.T, "L184", "L185")]
    /\ UNCHANGED <<inp, stack, ge, ce, ot, dk, emd, emdWrites, mfRange, ret, outcome>>

\* line 185 (theta0 dies with the frame unless it is the caller's array)
CP_return ==
    /\ cp.pc = "L185"
    /\ ReturnTo(PyTuple(<<cp.psi, cp.bins_sampled>>))
    /\ heap' = Restrict(heap, (DOMAIN heap) \ {"cp.theta0"})
    /\ cp' = Idle
    /\ UNCHANGED <<inp, ge, ce, ot, dk, emd, emdWrites, calls, mfRange>>

(***************************************************************************)
(* compute_dkl(eta2, theta2, psi2, theta1, psi1, N)                        *)
(***************************************************************************)
DkFrame(eta2, theta2, psi2, theta1, psi1, N) ==
    [pc |-> "L288", eta2 |-> eta2, theta2 |-> theta2, psi2 |-> psi2,
     theta1 |-> theta1, psi1 |-> psi1, N |-> N, dtheta |-> ""]

\* lines 288-289
DK_project ==
    /\ dk.pc = "L288"
    /\ LET dtheta == numpy_copy(dk.theta2, "dk.dtheta")
           copied == (dtheta :> heap[dk.theta2]) @@ heap
           diff == ArrSub(ColsTo(copied[dk.theta2], dk.N), dk.theta1)
       IN  /\ heap' = [copied EXCEPT ![dtheta] = SetColsTo(@, dk.N, diff)]
           /\ dk' = [dk EXCEPT !.dtheta = dtheta, !.pc = "L290"]
    /\ UNCHANGED <<inp, stack, ge, ce, cp, ot, emd, emdWrites, calls, mfRange,
                   ret, outcome>>

\* dkl = numpy.sum(eta2*dtheta, axis=1) - (psi2 - psi1)
Dkl(eta2, dtheta, psi2, psi1) ==
    VecSub(SumAxis1(ArrMul(eta2, dtheta)), VecSub(psi2, psi1))

\* lines 290-291
DK_return ==
    /\ dk.pc = "L290"
    /\ ReturnTo(PyArray(Dkl(dk.eta2, heap[dk.dtheta], dk.psi2, dk.psi1)))
    /\ heap' = Restrict(heap, (DOMAIN heap) \ {"dk.dtheta"})
    /\ dk' = Idle
    /\ UNCHANGED <<inp, ge, ce, cp, ot, emd, emdWrites, calls, mfRange>>

(***************************************************************************)
(* get_energies(emd)                                                       *)
(***************************************************************************)
GeFrame ==
    [pc |-> "L47", N |-> 0, O |-> 0, theta |-> "", eta |-> "", psi |-> "",
     theta1 |-> <<>>, psi1 |-> <<>>]

\* lines 47-49, up to the call of compute_eta(theta, N, O)
GE_start ==
    /\ ge.pc = "L47"
    /\ ge' = [ge EXCEPT !.N = inp.N, !.O = inp.O, !.theta = "theta", !.pc = "L49"]
    /\ ce' = CeFrame("theta", inp.N, inp.O, DefaultR)
    /\ stack' = Append(stack, "compute_eta")
    /\ UNCHANGED <<inp, heap, cp, ot, dk, emd, emdWrites, calls, mfRange, ret, outcome>>

\* line 49, the assignment, and line 50 up to the call of compute_psi(theta, N, O)
GE_after_eta ==
    /\ ge.pc = "L49"
    /\ Top = "get_energies"
    /\ ge' = [ge EXCEPT !.eta = ret.items[1], !.pc = "L50"]
    /\ emd' = SetAttrs(emd, << <<"eta_sampled", ret.items[2]>> >>)
    /\ emdWrites' = Append(emdWrites, "eta_sampled")
    /\ cp' = CpFrame(ge.theta, ge.N, ge.O, DefaultR)
    /\ stack' = Append(stack, "compute_psi")
    /\ UNCHANGED <<inp, heap, ce, ot, dk, calls, mfRange, ret, outcome>>

\* line 50, the assignment, and lines 51-61 up to the call of compute_dkl
GE_after_psi ==
    /\ ge.pc = "L50"
    /\ Top = "get_energies"
    /\ LET theta == heap[ge.theta]
           eta == heap[ge.eta]
           psi == heap[ret.items[1]]
           eta1 == ColsTo(eta, ge.N)
           theta1 == compute_ind_theta(eta1)
           psi1 == compute_ind_psi(theta1)
           S1 == compute_entropy(theta1, eta1, psi1, 1)
           S2 == compute_entropy(theta, eta, psi, 2)
           kvs == << <<"psi_sampled", ret.items[2]>>,
                     <<"U1", compute_internal_energy(theta1, eta1)>>,
                     <<"S1", S1>>,
                     <<"eta", eta>>,
                     <<"psi", psi>>,
                     <<"U2", compute_internal_energy(theta, eta)>>,
                     <<"S2", S2>>,
                     <<"S_ratio", [t \in 1..Len(S1) |->
                                      Div(Sub(S1[t], S2[t]), S1[t])]>> >>
       IN  /\ ge' = [ge EXCEPT !.psi = ret.items[1], !.theta1 = theta1,
                               !.psi1 = psi1, !.pc = "L61"]
           /\ emd' = SetAttrs(emd, kvs)
           /\ emdWrites' = emdWrites \o AttrNames(kvs)
           /\ dk' = DkFrame(eta, "theta", psi, theta1, psi1, ge.N)
    /\ stack' = Append(stack, "compute_dkl")
    /\ UNCHANGED <<inp, heap, ce, cp, ot, calls, mfRange, ret, outcome>>

\* lines 61-63
GE_finish ==
    /\ ge.pc = "L61"
    /\ Top = "get_energies"
    /\ LET theta == heap[ge.theta]
           psi == heap[ge.psi]
           kvs == << <<"dkl", ret.v>>,
                     <<"llk1", compute_likelihood(ColsTo(heap["y"], ge.N), ge.theta1,
                                                  ge.psi1, inp.R)>>,
                     <<"llk2", compute_likelihood(heap["y"], theta, psi, inp.R)>> >>
       IN  /\ emd' = SetAttrs(emd, kvs)
           /\ emdWrites' = emdWrites \o AttrNames(kvs)
    /\ ReturnTo(PyNone)
    /\ heap' = Restrict(heap, CallerRefs)
    /\ ge' = Idle
    /\ UNCHANGED <<inp, ce, cp, ot, dk, calls, mfRange>>

(***************************************************************************)
(* The calls the model makes: every function of the pipeline, on every     *)
(* input of the sets below.                                                *)
(***************************************************************************)
Binom2(N) == (N * (N - 1)) \div 2
Binom3(N) == (N * (N - 1) * (N - 2)) \div 6
\* the number of columns of theta for N cells and order O
Dim(N, O) == IF O = 1 THEN N
             ELSE IF O = 2 THEN N + Binom2(N)
             ELSE N + Binom2(N) + Binom3(N)

Fns == {"get_energies", "compute_eta", "compute_psi", "compute_dkl"}
\* <<N, O>>
Shapes == {<<2, 1>>, <<16, 1>>, <<2, 2>>, <<15, 2>>, <<16, 2>>, <<3, 3>>}
\* theta rows (first-order columns, pairwise columns); an input's bins take
\* consecutive rows of this cycle, so neighbouring bins differ
ThetaFills == << <<Num(1), Q(1, 2)>>, <<Num(-1), Num(2)>>, <<Q(1, 3), Num(-2)>> >>
\* Within one run of the pipeline the mean-field solvers answer every solve that
\* succeeds with one row pattern, any of EtaFills (mfRange); whether a solve
\* raises is free at every call, and so are the rows the sampler and the exact
\* module return.  SpecOT runs the integrator against a solver free to return
\* any row of EtaFills at every point.
\* where in the cycle an input's first bin starts
FirstFills == {1, 2}
TrialCounts == {50, DefaultR}

Init ==
    /\ \E fn \in Fns, sh \in Shapes, T \in 0..MaxT, R \in TrialCounts, f \in EtaFills :
         \E first \in FirstFills :
           LET fills == [t \in 1..T |-> ThetaFills[((first + t - 2) % Len(ThetaFills)) + 1]]
               N == sh[1]
               O == sh[2]
               D == Dim(N, O)
               theta == [t \in 1..T |-> EtaRow(D, N, fills[t])]
               y == Filled(T, D, Q(1, 2))
               eta2 == [t \in 1..T |-> EtaRow(D, N, f)]
               psi2 == [t \in 1..T |-> Q(3, 2)]
               theta1 == Filled(T, N, Q(1, 3))
               psi1 == [t \in 1..T |-> Num(2)]
           IN  /\ fn = "compute_dkl" => O = 2
               /\ fn \in {"compute_psi", "compute_dkl"} => R = DefaultR
               /\ fn = "get_energies" => R = 50
               /\ inp = [fn |-> fn, N |-> N, O |-> O, D |-> D, R |-> R,
                         theta |-> theta, y |-> y, eta2 |-> eta2, psi2 |-> psi2,
                         theta1 |-> theta1, psi1 |-> psi1]
               /\ heap = ("theta" :> theta) @@ ("y" :> y)
               /\ mfRange = {f}
               /\ ge = IF fn = "get_energies" THEN GeFrame ELSE Idle
               /\ ce = IF fn = "compute_eta" THEN CeFrame("theta", N, O, R) ELSE Idle
               /\ cp = IF fn = "compute_psi" THEN CpFrame("theta", N, O, R) ELSE Idle
               /\ dk = IF fn = "compute_dkl"
                       THEN DkFrame(eta2, "theta", psi2, theta1, psi1, N) ELSE Idle
               /\ stack = <<fn>>
    /\ ot = Idle
    /\ emd = NoHeap
    /\ emdWrites = <<>>
    /\ calls = <<>>
    /\ ret = PyNone
    /\ outcome = Running

Next ==
    \/ GE_start \/ GE_after_eta \/ GE_after_psi \/ GE_finish
    \/ CE_enter \/ CE_order1 \/ CE_solve \/ CE_solve_fails
    \/ CE_nothing_to_sample \/ CE_sample \/ CE_exact_init \/ CE_exact_bin \/ CE_return
    \/ CP_enter \/ CP_order1 \/ CP_reference \/ CP_call_ot \/ CP_unpack
    \/ CP_exact_init \/ CP_exact_bin \/ CP_return
    \/ OT_enter \/ OT_point \/ OT_point_raise \/ OT_return
    \/ DK_project \/ DK_return

Spec == Init /\ [][Next]_vars

(***************************************************************************)
(* What the claims speak of.                                               *)
(***************************************************************************)
Range(s) == {s[k] : k \in 1..Len(s)}
StrictlyIncreasing(s) == \A j, k \in 1..Len(s) : j < k => s[j] < s[k]
CallsOf(fns) == SelectSeq(calls, LAMBDA c : c.fn \in fns)
CallNames == [k \in 1..Len(calls) |-> calls[k].fn]
FpCalls == CallsOf({"mean_field.forward_problem"})
HessianCalls == CallsOf({"mean_field.forward_problem_hessian"})
SamplerCalls == CallsOf({"synthesis.generate_spikes_gibbs_parallel"})
EstimateCalls == CallsOf({"transforms.compute_y"})
ExactFns == {"transforms.initialise", "transforms.compute_p",
             "transforms.compute_eta", "transforms.compute_psi"}
\* the bins (0-based) whose forward problem raised
FailedBins == {i \in 0..(Len(FpCalls) - 1) : ~FpCalls[i + 1].ok}
\* the position of bin b among the failed bins, in bin order
RankOf(b) == Cardinality({i \in FailedBins : i <= b})
InputT == Len(inp.theta)
\* compute_eta has just returned: to the top level, or to get_energies at line 49
CeReturned ==
    \/ inp.fn = "compute_eta" /\ outcome.kind = "returned"
    \/ inp.fn = "get_energies" /\ ge.pc = "L49" /\ Top = "get_energies"
\* the call of compute_eta is one with O = 2 and N > 15
CeApproximate == inp.fn \in {"compute_eta", "get_energies"} /\ inp.O = 2 /\ inp.N > 15
\* the R that compute_eta was called with (get_energies leaves the default)
CeR == IF inp.fn = "compute_eta" THEN inp.R ELSE 1000

\* C1: in compute_eta with O = 2 and N > 15 no failure of the forward solver is
\* propagated (nothing is raised before compute_eta has returned), and the list
\* returned holds exactly the indices of the bins whose solve raised, each once,
\* in increasing order, after one solve per bin.
C1_FailedBinsRecorded ==
    CeApproximate =>
        /\ outcome.kind = "raised" =>
              inp.fn = "get_energies" /\ "eta_sampled" \in DOMAIN emd
        /\ CeReturned =>
              /\ Len(FpCalls) = InputT
              /\ StrictlyIncreasing(ret.items[2])
              /\ Range(ret.items[2]) = FailedBins
              /\ Len(ret.items[2]) = Cardinality(FailedBins)

C1_Witness ==
    /\ CeApproximate /\ CeReturned
    /\ InputT = 2
    /\ ret.items[2] = <<1>>

\* C2: in compute_eta with O = 2 and N > 15 the Gibbs sampler is called once when
\* some bin failed and never otherwise, with the theta rows of the failed bins in
\* bin order, R trials and 100 mixing steps; each failed bin's row of eta is the
\* estimate computed for that bin and every other row is the solver's result.
C2_FallbackSubstitutes ==
    (CeApproximate /\ CeReturned) =>
        /\ Len(SamplerCalls) = (IF FailedBins = {} THEN 0 ELSE 1)
        /\ Len(EstimateCalls) = Len(SamplerCalls)
        /\ FailedBins # {} =>
              LET a == SamplerCalls[1].args
              IN  /\ Len(a[1]) = Cardinality(FailedBins)
                  /\ \A b \in FailedBins : a[1][RankOf(b)] = inp.theta[b + 1]
                  /\ a[2] = inp.N /\ a[3] = 2 /\ a[4] = CeR /\ a[5] = 100
        /\ \A b \in 0..(InputT - 1) :
              heap[ret.items[1]][b + 1] =
                  IF b \in FailedBins THEN EstimateCalls[1].res[RankOf(b)]
                  ELSE FpCalls[b + 1].res

C2_Witness ==
    /\ CeApproximate /\ CeReturned
    /\ InputT = 2
    /\ FailedBins = {1}
    /\ heap[ret.items[1]][2] # FpCalls[1].res

\* C3: on an order-2 record with N > 15, a failure of the mean-field solver inside
\* ot_estimator never ends get_energies with an exception.
C3_SolverFailureNotFatal ==
    (/\ inp.fn = "get_energies" /\ inp.O = 2 /\ inp.N > 15
     /\ \E k \in 1..Len(HessianCalls) : ~HessianCalls[k].ok)
        => outcome.kind # "raised"

\* C4: for O = 2 and N > 15, with every solver call succeeding, compute_psi does
\* not raise, and what it returns is one psi value per bin and the list of bins.
C4_PsiCompletes ==
    (/\ inp.fn = "compute_psi" /\ inp.O = 2 /\ inp.N > 15
     /\ \A k \in 1..Len(calls) : calls[k].ok)
        => /\ outcome.kind # "raised"
           /\ outcome.kind = "returned" => Len(heap[ret.items[1]]) = InputT

\* C5: with an order other than 1 and 2, compute_eta, compute_psi and get_energies
\* return no result.
C5_UnsupportedOrderRejected ==
    (inp.fn \in {"compute_eta", "compute_psi", "get_energies"} /\ inp.O \notin {1, 2})
        => outcome.kind # "returned"

\* the calls compute_eta makes on the exact branch, by name
EtaExactCalls(T) ==
    [k \in 1..(1 + 2 * T) |-> IF k = 1 THEN "transforms.initialise"
                              ELSE IF k % 2 = 0 THEN "transforms.compute_p"
                              ELSE "transforms.compute_eta"]
\* the calls compute_psi makes on the exact branch, by name
PsiExactCalls(T) ==
    [k \in 1..(1 + T) |-> IF k = 1 THEN "transforms.initialise"
                          ELSE "transforms.compute_psi"]
\* the sampled-bin lists a finished call handed back
ListsReturned ==
    IF inp.fn = "get_energies" THEN {emd["eta_sampled"], emd["psi_sampled"]}
    ELSE {ret.items[2]}

C7_CallerArraysUnchanged ==
    /\ heap["theta"] = inp.theta
    /\ heap["y"] = inp.y

C7_Witness ==
    /\ inp.fn = "get_energies"
    /\ dk.pc = "L290"
    /\ InputT = 2
    /\ heap[dk.dtheta] # heap["theta"]

OutputFields == {"eta_sampled", "psi_sampled", "eta", "psi", "U1", "S1", "U2", "S2",
                 "S_ratio", "dkl", "llk1", "llk2"}

\* C8: on an order-2 record, with every solver call succeeding, get_energies ends
\* by returning None with each of the twelve outputs assigned exactly once.
C8_AllOutputsWritten ==
    (/\ inp.fn = "get_energies" /\ inp.O = 2
     /\ \A k \in 1..Len(calls) : calls[k].ok
     /\ outcome.kind # "running")
        => /\ outcome.kind = "returned"
           /\ ret.type = "None"
           /\ Range(emdWrites) = OutputFields
           /\ Len(emdWrites) = Cardinality(OutputFields)

\* C9: ot_estimator called with th0 equal to th1 returns exactly psi0, whatever K
\* and whatever rows the solver returned along the path.
C9_ZeroPathReturnsPsi0 ==
    (inp.fn = "ot_estimator" /\ inp.th0 = inp.th1 /\ outcome.kind = "returned")
        => ret = PyFloat(inp.psi0)

C9_Witness ==
    /\ inp.fn = "ot_estimator" /\ outcome.kind = "returned"
    /\ inp.th0 = inp.th1 /\ inp.th0 = <<Num(2), Num(-1)>>
    /\ inp.K = 3 /\ inp.psi0 = Q(3, 2)
    /\ HessianCalls[1].res # HessianCalls[2].res

\* the weight the claim gives point k of K (k from 1)
ClaimedWeight(k, K) == IF k = 1 \/ k = K THEN Q(1, K * K) ELSE Q(1, K)

====
